---- MODULE Spec2Model ----
(***************************************************************************)
(* Path Hunter (script.js): a grid of cells with walls, a start and an end *)
(* position, three searches (bfs, dfs, astar) with path reconstruction,    *)
(* and three maze generators.  A cell is the pair <<r, c>>; gridArray maps *)
(* every cell of the current grid to its node record.                      *)
(***************************************************************************)
EXTENDS Integers, Sequences, FiniteSets, TLC

VARIABLES
    ROWS, COLS,        \* grid dimensions
    gridArray,         \* cell -> node record
    isMousePressed,
    isRunning,
    currentTool,       \* "pointer" | "pencil" | "eraser"
    draggingNode,      \* "null" | "start" | "end"
    startPos, endPos,  \* [r, c]
    pc,                \* position of startVisualization/animate: "idle" | "search" | "animate" | "path"
    algo,              \* algorithm identifier of the run in flight (or of the last run)
    frontier,          \* queue (bfs), stack (dfs) or openSet (astar) of the running search
    visitedNodes,      \* visitedOrder of the search / visitedNodes of animate
    i,                 \* loop index of animate's loops
    path,              \* path reconstructed by animate
    results,           \* what the results panel shows: the arguments of the last showResults call
    events             \* number of user events handled so far (bounds the model)

vars == <<ROWS, COLS, gridArray, isMousePressed, isRunning, currentTool,
          draggingNode, startPos, endPos, pc, algo, frontier, visitedNodes,
          i, path, results, events>>

uiVars == <<isMousePressed, currentTool, draggingNode>>
runVars == <<pc, algo, frontier, visitedNodes, i, path, results>>

----------------------------------------------------------------------------
(* Bounds of the model *)

MaxRows == 5        \* rows of the large window of the model
MaxCols == 7        \* columns of the large window of the model
MaxEvents == 3      \* user events per behaviour of Spec
MouseReach == 2     \* the pointer stays within this distance of the bottom-right corner
RandDen == 2        \* Math.random() yields k / RandDen, k in 0..RandDen-1
MaxWalls == 2       \* walls of an input grid of the search specification
MaxMazeSide == 7    \* rows and columns of the largest grid of the maze specification

(* Program constants *)

CELL_SIZE == 32
Infinity == 1000000
null == <<>>      \* previousNode: null

Min(a, b) == IF a < b THEN a ELSE b
Abs(a) == IF a < 0 THEN -a ELSE a

----------------------------------------------------------------------------
(* Grid creation *)

Cells(rows, cols) == (0 .. rows - 1) \X (0 .. cols - 1)

At(pos) == <<pos.r, pos.c>>

NewNode == [isWall |-> FALSE, isVisited |-> FALSE, previousNode |-> null,
            distance |-> Infinity, fCost |-> Infinity, gCost |-> Infinity]

createGrid(rows, cols) == [cell \in Cells(rows, cols) |-> NewNode]

\* Math.floor(Math.min(window.innerWidth * 0.9, 1200) / CELL_SIZE), clamped to 5
GridCols(innerWidth) ==
    LET cols == Min(9 * innerWidth, 12000) \div (10 * CELL_SIZE)
    IN  IF cols < 5 THEN 5 ELSE cols

\* Math.floor(Math.min(window.innerHeight * 0.7, 650) / CELL_SIZE), clamped to 5
GridRows(innerHeight) ==
    LET rows == Min(7 * innerHeight, 6500) \div (10 * CELL_SIZE)
    IN  IF rows < 5 THEN 5 ELSE rows

\* the positions kept as they are, not clamped
ClampPos_NoClamp(pos, rows, cols) == pos

ClampPos(pos, rows, cols) == [r |-> Min(pos.r, rows - 1), c |-> Min(pos.c, cols - 1)]

\* Window sizes of the model: a small window, which calculateGridSize clamps to
\* 5 x 5 cells, and a large one of MaxRows x MaxCols cells
Windows == {[innerWidth |-> 36 * 4, innerHeight |-> 46 * 4],
            [innerWidth |-> 36 * MaxCols, innerHeight |-> 46 * MaxRows]}

isStartOrEnd(r, c) ==
    \/ r = startPos.r /\ c = startPos.c
    \/ r = endPos.r /\ c = endPos.c

InGrid(g, r, c) == <<r, c>> \in DOMAIN g

----------------------------------------------------------------------------
(* addWall on a grid value.  A machine M = [g, threw] carries the grid and  *)
(* whether a TypeError was thrown (gridArray[r][c] undefined): after a      *)
(* throw the rest of the handler does not run.                              *)

\* addWall without its isStartOrEnd guard
addWall_NoGuard(M, r, c, state) ==
    IF M.threw THEN M
    ELSE IF ~InGrid(M.g, r, c) THEN [M EXCEPT !.threw = TRUE]
    ELSE [M EXCEPT !.g[<<r, c>>].isWall = state]

addWall(M, r, c, state) ==
    IF M.threw \/ isStartOrEnd(r, c) THEN M
    ELSE IF ~InGrid(M.g, r, c) THEN [M EXCEPT !.threw = TRUE]
    ELSE [M EXCEPT !.g[<<r, c>>].isWall = state]

\* for (x of cells) addWall(x.r, x.c, state): the calls of one loop, in the loop's
\* order; the loop ends at the first call that throws
addWalls(M, cells, state) ==
    LET Hit(j) == ~isStartOrEnd(cells[j][1], cells[j][2])
        bad == {j \in 1 .. Len(cells) : Hit(j) /\ ~InGrid(M.g, cells[j][1], cells[j][2])}
        stop == IF bad = {} THEN Len(cells) + 1
                ELSE CHOOSE j \in bad : \A k \in bad : j <= k
        done == {cells[j] : j \in {k \in 1 .. stop - 1 : Hit(k)}}
    IN  IF M.threw THEN M
        ELSE [M EXCEPT !.threw = bad # {},
                       !.g = [cell \in DOMAIN M.g |->
                                 IF cell \in done
                                 THEN [M.g[cell] EXCEPT !.isWall = state]
                                 ELSE M.g[cell]]]

\* resetVisuals clearing the walls as well
resetVisuals_AndWalls(g) ==
    [cell \in DOMAIN g |->
        [g[cell] EXCEPT !.isWall = FALSE, !.isVisited = FALSE, !.distance = Infinity,
                        !.gCost = Infinity, !.fCost = Infinity,
                        !.previousNode = null]]

resetVisuals(g) ==
    [cell \in DOMAIN g |->
        [g[cell] EXCEPT !.isVisited = FALSE, !.distance = Infinity,
                        !.gCost = Infinity, !.fCost = Infinity,
                        !.previousNode = null]]

ClearWalls(g) == [cell \in DOMAIN g |-> [g[cell] EXCEPT !.isWall = FALSE]]

\* the results panel: never written yet, and as resetBoard writes it
NoResults == [status |-> "None", visited |-> 0, pathLen |-> 0]
IdleResults == [status |-> "Idle", visited |-> 0, pathLen |-> 0]

----------------------------------------------------------------------------
(* Initial state: the globals of script.js lines 5-14 (ROWS = 15, COLS = 30, *)
(* startPos = (5, 5), endPos = (5, 25)) after the calculateGridSize() call  *)
(* that ends the script, made with the size the window has at load.         *)

Init ==
    /\ \E w \in Windows :
          /\ ROWS = GridRows(w.innerHeight)
          /\ COLS = GridCols(w.innerWidth)
          /\ startPos = ClampPos([r |-> 5, c |-> 5], ROWS, COLS)
          /\ endPos = ClampPos([r |-> 5, c |-> 25], ROWS, COLS)
          /\ gridArray = createGrid(ROWS, COLS)
    /\ isMousePressed = FALSE
    /\ isRunning = FALSE
    /\ currentTool = "pointer"
    /\ draggingNode = "null"
    /\ pc = "idle"
    /\ algo = "none"
    /\ frontier = <<>>
    /\ visitedNodes = <<>>
    /\ i = 0
    /\ path = <<>>
    /\ results = NoResults
    /\ events = 0

\* a user event: handled between the synchronous parts of other handlers, and
\* only while the budget of the model lasts
UserEvent == pc # "search" /\ events < MaxEvents /\ events' = events + 1

----------------------------------------------------------------------------
(* Handlers *)

\* window resize listener -> calculateGridSize -> createGrid
Resize(innerWidth, innerHeight) ==
    /\ UserEvent
    /\ IF isRunning
       THEN UNCHANGED <<ROWS, COLS, startPos, endPos, gridArray>>
       ELSE LET rows == GridRows(innerHeight)
                cols == GridCols(innerWidth)
            IN  /\ ROWS' = rows
                /\ COLS' = cols
                /\ startPos' = ClampPos(startPos, rows, cols)
                /\ endPos' = ClampPos(endPos, rows, cols)
                /\ gridArray' = createGrid(rows, cols)
    /\ UNCHANGED <<isRunning, uiVars, runVars>>

setTool(tool) ==
    /\ UserEvent
    /\ currentTool' = tool
    /\ UNCHANGED <<ROWS, COLS, gridArray, isMousePressed, isRunning, draggingNode,
                   startPos, endPos, runVars>>

\* the tool applied to a cell by handleMouseDown / handleMouseEnter
ApplyTool(g, r, c) ==
    IF currentTool = "pencil" THEN addWall([g |-> g, threw |-> FALSE], r, c, TRUE).g
    ELSE IF currentTool = "eraser" THEN addWall([g |-> g, threw |-> FALSE], r, c, FALSE).g
    ELSE g

\* mousedown on the cell (r, c); the listener exists only on cells of the grid
handleMouseDown(r, c) ==
    /\ UserEvent
    /\ InGrid(gridArray, r, c)
    /\ IF isRunning
       THEN UNCHANGED <<isMousePressed, draggingNode, gridArray>>
       ELSE /\ isMousePressed' = TRUE
            /\ IF r = startPos.r /\ c = startPos.c
               THEN draggingNode' = "start" /\ UNCHANGED gridArray
               ELSE IF r = endPos.r /\ c = endPos.c
               THEN draggingNode' = "end" /\ UNCHANGED gridArray
               ELSE /\ gridArray' = ApplyTool(gridArray, r, c)
                    /\ UNCHANGED draggingNode
    /\ UNCHANGED <<ROWS, COLS, isRunning, currentTool, startPos, endPos, runVars>>

\* mouseenter on the cell (r, c)
handleMouseEnter(r, c) ==
    /\ UserEvent
    /\ InGrid(gridArray, r, c)
    /\ IF ~isMousePressed \/ isRunning
       THEN UNCHANGED <<startPos, endPos, gridArray>>
       ELSE IF draggingNode = "start"
       THEN /\ startPos' = IF (r # endPos.r \/ c # endPos.c) /\ ~gridArray[<<r, c>>].isWall
                           THEN [r |-> r, c |-> c] ELSE startPos
            /\ UNCHANGED <<endPos, gridArray>>
       ELSE IF draggingNode = "end"
       THEN /\ endPos' = IF (r # startPos.r \/ c # startPos.c) /\ ~gridArray[<<r, c>>].isWall
                         THEN [r |-> r, c |-> c] ELSE endPos
            /\ UNCHANGED <<startPos, gridArray>>
       ELSE /\ gridArray' = ApplyTool(gridArray, r, c)
            /\ UNCHANGED <<startPos, endPos>>
    /\ UNCHANGED <<ROWS, COLS, isMousePressed, isRunning, currentTool, draggingNode, runVars>>

handleMouseUp ==
    /\ UserEvent
    /\ isMousePressed' = FALSE
    /\ draggingNode' = "null"
    /\ UNCHANGED <<ROWS, COLS, gridArray, isRunning, currentTool, startPos, endPos, runVars>>

\* resetBoard without its isRunning guard
resetBoard_NoGuard ==
    /\ UserEvent
    /\ gridArray' = ClearWalls(resetVisuals(gridArray))
    /\ results' = IdleResults
    /\ UNCHANGED <<ROWS, COLS, isRunning, uiVars, startPos, endPos,
                   pc, algo, frontier, visitedNodes, i, path>>

\* resetBoard as a click handler
resetBoard ==
    /\ UserEvent
    /\ IF isRunning
       THEN UNCHANGED <<gridArray, results>>
       ELSE /\ gridArray' = ClearWalls(resetVisuals(gridArray))
            /\ results' = IdleResults
    /\ UNCHANGED <<ROWS, COLS, isRunning, uiVars, startPos, endPos,
                   pc, algo, frontier, visitedNodes, i, path>>

----------------------------------------------------------------------------
(* Maze / pattern generation.  A generator works on a machine               *)
(* M = [g, threw, k]: the grid, whether addWall threw, and the number of    *)
(* Math.random() calls made so far.  rand is the random source.             *)

\* the random sources of the model: a generator with a seed and a stride, whose
\* k-th Math.random() call returns ((seed + k * stride) % RandDen) / RandDen
RandomStreams == [seed : 0 .. RandDen - 1, stride : 0 .. RandDen - 1]

\* Math.floor(Math.random() * n) at the k-th call
RandomInt(rand, k, n) == (((rand.seed + k * rand.stride) % RandDen) * n) \div RandDen

\* the cells <<r, c>> for c = cFrom, cFrom + step, ... up to cTo (step is 1 or -1)
RowCells(r, cFrom, cTo, step) ==
    [j \in 1 .. (IF step * (cTo - cFrom) < 0 THEN 0 ELSE step * (cTo - cFrom) + 1)
        |-> <<r, cFrom + step * (j - 1)>>]

ColCells(c, rFrom, rTo, step) ==
    [j \in 1 .. (IF step * (rTo - rFrom) < 0 THEN 0 ELSE step * (rTo - rFrom) + 1)
        |-> <<rFrom + step * (j - 1), c>>]

NotStartOrEnd(cell) == ~isStartOrEnd(cell[1], cell[2])

RECURSIVE recursiveDivision(_, _, _, _, _, _)
recursiveDivision(M, rand, rStart, rEnd, cStart, cEnd) ==
    IF M.threw \/ rEnd - rStart < 2 \/ cEnd - cStart < 2 THEN M
    ELSE IF rEnd - rStart > cEnd - cStart
    THEN LET wallR == RandomInt(rand, M.k, rEnd - rStart - 1) + rStart + 1
             gapC == RandomInt(rand, M.k + 1, cEnd - cStart + 1) + cStart
             line == SelectSeq(RowCells(wallR, cStart, cEnd, 1),
                               LAMBDA cell : cell[2] # gapC /\ NotStartOrEnd(cell))
             M1 == addWalls([M EXCEPT !.k = M.k + 2], line, TRUE)
             M2 == recursiveDivision(M1, rand, rStart, wallR - 1, cStart, cEnd)
         IN  recursiveDivision(M2, rand, wallR + 1, rEnd, cStart, cEnd)
    ELSE LET wallC == RandomInt(rand, M.k, cEnd - cStart - 1) + cStart + 1
             gapR == RandomInt(rand, M.k + 1, rEnd - rStart + 1) + rStart
             line == SelectSeq(ColCells(wallC, rStart, rEnd, 1),
                               LAMBDA cell : cell[1] # gapR /\ NotStartOrEnd(cell))
             M1 == addWalls([M EXCEPT !.k = M.k + 2], line, TRUE)
             M2 == recursiveDivision(M1, rand, rStart, rEnd, cStart, wallC - 1)
         IN  recursiveDivision(M2, rand, rStart, rEnd, wallC + 1, cEnd)

\* clearNeighbors clearing nothing
clearNeighbors_None(M, pos) == M

clearNeighbors(M, pos) ==
    LET dirs == << <<0, 1>>, <<0, -1>>, <<1, 0>>, <<-1, 0>> >>
        around == [j \in 1 .. 4 |-> <<pos.r + dirs[j][1], pos.c + dirs[j][2]>>]
        inside == SelectSeq(around, LAMBDA cell : /\ cell[1] >= 0 /\ cell[1] < ROWS
                                                  /\ cell[2] >= 0 /\ cell[2] < COLS)
    IN  addWalls(M, inside, FALSE)

\* the while loop of generateSpiralPattern
RECURSIVE SpiralLoop(_, _, _, _, _)
SpiralLoop(M, rStart, rEnd, cStart, cEnd) ==
    IF M.threw \/ ~(rStart <= rEnd /\ cStart <= cEnd) THEN M
    ELSE LET M1 == addWalls(M, SelectSeq(RowCells(rStart, cStart, cEnd, 1), NotStartOrEnd), TRUE)
             rStart1 == rStart + 2
             M2 == addWalls(M1, SelectSeq(ColCells(cEnd, rStart1 - 2, rEnd, 1), NotStartOrEnd), TRUE)
             cEnd1 == cEnd - 2
             M3 == IF rStart1 <= rEnd
                   THEN addWalls(M2, SelectSeq(RowCells(rEnd, cEnd1 + 2, cStart, -1), NotStartOrEnd), TRUE)
                   ELSE M2
             rEnd1 == IF rStart1 <= rEnd THEN rEnd - 2 ELSE rEnd
             M4 == IF cStart <= cEnd1
                   THEN addWalls(M3, SelectSeq(ColCells(cStart, rEnd1 + 2, rStart1, -1), NotStartOrEnd), TRUE)
                   ELSE M3
             cStart1 == IF cStart <= cEnd1 THEN cStart + 2 ELSE cStart
         IN  SpiralLoop(M4, rStart1, rEnd1, cStart1, cEnd1)

generateSpiralPattern(M) ==
    LET M1 == SpiralLoop(M, 1, ROWS - 2, 1, COLS - 2)
    IN  IF M1.threw THEN M1 ELSE clearNeighbors(clearNeighbors(M1, startPos), endPos)

\* getMazeNeighbors without the direction [-2, 0]
getMazeNeighbors_NoUp(r, c, visited) ==
    LET dirs == << <<0, -2>>, <<0, 2>>, <<2, 0>> >>
        around == [j \in 1 .. 3 |-> <<r + dirs[j][1], c + dirs[j][2]>>]
    IN  SelectSeq(around, LAMBDA cell : /\ cell[1] >= 0 /\ cell[1] < ROWS
                                        /\ cell[2] >= 0 /\ cell[2] < COLS
                                        /\ cell \notin visited)

\* getMazeNeighbors without its test of the grid's bounds
getMazeNeighbors_NoBounds(r, c, visited) ==
    LET dirs == << <<0, -2>>, <<0, 2>>, <<-2, 0>>, <<2, 0>> >>
        around == [j \in 1 .. 4 |-> <<r + dirs[j][1], c + dirs[j][2]>>]
    IN  SelectSeq(around, LAMBDA cell : cell \notin visited)

getMazeNeighbors(r, c, visited) ==
    LET dirs == << <<0, -2>>, <<0, 2>>, <<-2, 0>>, <<2, 0>> >>
        around == [j \in 1 .. 4 |-> <<r + dirs[j][1], c + dirs[j][2]>>]
    IN  SelectSeq(around, LAMBDA cell : /\ cell[1] >= 0 /\ cell[1] < ROWS
                                        /\ cell[2] >= 0 /\ cell[2] < COLS
                                        /\ cell \notin visited)

\* n / 2 as an index of the grid: a fraction is the index of no row and no column
Half(n) == IF n % 2 = 0 THEN n \div 2 ELSE -1

\* the while loop of generateDFSMaze; the stack's top is its last element
RECURSIVE MazeLoop(_, _, _, _)
MazeLoop(M, rand, stack, visited) ==
    IF M.threw \/ stack = <<>> THEN M
    ELSE LET curr == stack[Len(stack)]
             rest == SubSeq(stack, 1, Len(stack) - 1)
             neighbors == getMazeNeighbors(curr[1], curr[2], visited)
         IN  IF Len(neighbors) > 0
             THEN LET next == neighbors[RandomInt(rand, M.k, Len(neighbors)) + 1]
                      wallR == Half(curr[1] + next[1])
                      wallC == Half(curr[2] + next[2])
                      M1 == addWall([M EXCEPT !.k = M.k + 1], wallR, wallC, FALSE)
                      M2 == addWall(M1, next[1], next[2], FALSE)
                  IN  MazeLoop(M2, rand, rest \o <<curr, next>>, visited \cup {next})
             ELSE MazeLoop(M, rand, rest, visited)

generateDFSMaze(M, rand) ==
    LET all == [j \in 1 .. ROWS * COLS |-> <<(j - 1) \div COLS, (j - 1) % COLS>>]
        M1 == addWalls(M, SelectSeq(all, NotStartOrEnd), TRUE)
        M2 == MazeLoop(M1, rand, <<At(startPos)>>, {At(startPos)})
    IN  addWall(addWall(M2, startPos.r, startPos.c, FALSE), endPos.r, endPos.c, FALSE)

\* the machine a generator starts on: the grid as resetBoard leaves it
BoardReset == [g |-> ClearWalls(resetVisuals(gridArray)), threw |-> FALSE, k |-> 0]

\* resetBoard() followed by the generator chosen by `type`
RunGenerator(type, rand) ==
    IF type = "random" THEN generateDFSMaze(BoardReset, rand)
    ELSE IF type = "spiral" THEN generateSpiralPattern(BoardReset)
    ELSE recursiveDivision(BoardReset, rand, 1, ROWS - 2, 1, COLS - 2)

\* change of the mazeSelect element to `type`
handleMazeGen(type, rand) ==
    /\ UserEvent
    /\ IF isRunning
       THEN UNCHANGED <<gridArray, results>>
       ELSE /\ gridArray' = RunGenerator(type, rand).g
            /\ results' = IdleResults
    /\ UNCHANGED <<ROWS, COLS, isRunning, uiVars, startPos, endPos,
                   pc, algo, frontier, visitedNodes, i, path>>

----------------------------------------------------------------------------
(* Searches.  A search works on S = [g, frontier, visitedOrder, done]: the  *)
(* grid, its queue / stack / openSet, the trace, and whether it returned    *)
(* from inside the loop (current === end).  Nodes are named by their cell.  *)

\* getNeighbors taking the first cell of the row as the right neighbor of the last
getNeighbors_Wrap(node) ==
    LET r == node[1]
        c == node[2]
    IN  (IF r > 0 THEN << <<r - 1, c>> >> ELSE <<>>)
        \o << <<r, (c + 1) % COLS>> >>
        \o (IF r < ROWS - 1 THEN << <<r + 1, c>> >> ELSE <<>>)
        \o (IF c > 0 THEN << <<r, c - 1>> >> ELSE <<>>)

getNeighbors(node) ==
    LET r == node[1]
        c == node[2]
    IN  (IF r > 0 THEN << <<r - 1, c>> >> ELSE <<>>)              \* Up
        \o (IF c < COLS - 1 THEN << <<r, c + 1>> >> ELSE <<>>)    \* Right
        \o (IF r < ROWS - 1 THEN << <<r + 1, c>> >> ELSE <<>>)    \* Down
        \o (IF c > 0 THEN << <<r, c - 1>> >> ELSE <<>>)           \* Left

\* a heuristic that prefers cells far from the end
heuristic_Away(a, b) == 8 - (Abs(a[1] - b[1]) + Abs(a[2] - b[2]))

heuristic(a, b) == Abs(a[1] - b[1]) + Abs(a[2] - b[2])

InSeq(x, seq) == \E j \in 1 .. Len(seq) : seq[j] = x

\* the cells of seq as a set
Range(seq) == {seq[j] : j \in 1 .. Len(seq)}

\* the loop without its isVisited check
VisitNeighbors_Revisit(S, current, neighbors) ==
    LET fresh == SelectSeq(neighbors, LAMBDA n : ~S.g[n].isWall)
    IN  [S EXCEPT !.g = [cell \in DOMAIN S.g |->
                            IF cell \in Range(fresh)
                            THEN [S.g[cell] EXCEPT !.isVisited = TRUE,
                                                   !.previousNode = current]
                            ELSE S.g[cell]],
                  !.frontier = S.frontier \o fresh]

\* the loop without its isWall check
VisitNeighbors_ThroughWalls(S, current, neighbors) ==
    LET fresh == SelectSeq(neighbors, LAMBDA n : ~S.g[n].isVisited)
    IN  [S EXCEPT !.g = [cell \in DOMAIN S.g |->
                            IF cell \in Range(fresh)
                            THEN [S.g[cell] EXCEPT !.isVisited = TRUE,
                                                   !.previousNode = current]
                            ELSE S.g[cell]],
                  !.frontier = S.frontier \o fresh]

\* the for loop over the neighbors in bfs and dfs: each unvisited non-wall
\* neighbor is marked, linked to current and pushed, in the order of neighbors
\* (the neighbors are distinct cells, so no iteration reads what another wrote)
VisitNeighbors(S, current, neighbors) ==
    LET fresh == SelectSeq(neighbors, LAMBDA n : ~S.g[n].isVisited /\ ~S.g[n].isWall)
    IN  [S EXCEPT !.g = [cell \in DOMAIN S.g |->
                            IF cell \in Range(fresh)
                            THEN [S.g[cell] EXCEPT !.isVisited = TRUE,
                                                   !.previousNode = current]
                            ELSE S.g[cell]],
                  !.frontier = S.frontier \o fresh]

\* bfs before its loop
bfsStart(g, start) ==
    [g |-> [g EXCEPT ![start].isVisited = TRUE], frontier |-> <<start>>,
     visitedOrder |-> <<>>, done |-> FALSE]

\* bfs taking the newest entry of its queue (pop) instead of the oldest (shift)
bfsIter_Pop(S, end) ==
    LET current == S.frontier[Len(S.frontier)]
        S1 == [S EXCEPT !.frontier = SubSeq(S.frontier, 1, Len(S.frontier) - 1),
                        !.visitedOrder = Append(S.visitedOrder, current)]
    IN  IF current = end THEN [S1 EXCEPT !.done = TRUE]
        ELSE VisitNeighbors(S1, current, getNeighbors(current))

\* one iteration of the while loop of bfs
bfsIter(S, end) ==
    LET current == Head(S.frontier)
        S1 == [S EXCEPT !.frontier = Tail(S.frontier),
                        !.visitedOrder = Append(S.visitedOrder, current)]
    IN  IF current = end THEN [S1 EXCEPT !.done = TRUE]
        ELSE VisitNeighbors(S1, current, getNeighbors(current))

dfsStart(g, start) == bfsStart(g, start)

\* dfs without its return at the end cell
dfsIter_NoStop(S, end) ==
    LET current == S.frontier[Len(S.frontier)]
        S1 == [S EXCEPT !.frontier = SubSeq(S.frontier, 1, Len(S.frontier) - 1),
                        !.visitedOrder = Append(S.visitedOrder, current)]
    IN  VisitNeighbors(S1, current, getNeighbors(current))

\* one iteration of the while loop of dfs: the stack's top is its last element
dfsIter(S, end) ==
    LET current == S.frontier[Len(S.frontier)]
        S1 == [S EXCEPT !.frontier = SubSeq(S.frontier, 1, Len(S.frontier) - 1),
                        !.visitedOrder = Append(S.visitedOrder, current)]
    IN  IF current = end THEN [S1 EXCEPT !.done = TRUE]
        ELSE VisitNeighbors(S1, current, getNeighbors(current))

\* the sort with its comparison reversed: (a, b) => b.fCost - a.fCost
SortByFCost_Descending(g, seq) ==
    LET Before(k, j) == \/ g[seq[k]].fCost > g[seq[j]].fCost
                        \/ g[seq[k]].fCost = g[seq[j]].fCost /\ k < j
        Rank(j) == 1 + Cardinality({k \in 1 .. Len(seq) : Before(k, j)})
    IN  [p \in 1 .. Len(seq) |-> seq[CHOOSE j \in 1 .. Len(seq) : Rank(j) = p]]

\* openSet.sort((a, b) => a.fCost - b.fCost): a stable sort; the element at
\* index j goes behind those of smaller fCost and the earlier ones of equal fCost
SortByFCost(g, seq) ==
    LET Before(k, j) == \/ g[seq[k]].fCost < g[seq[j]].fCost
                        \/ g[seq[k]].fCost = g[seq[j]].fCost /\ k < j
        Rank(j) == 1 + Cardinality({k \in 1 .. Len(seq) : Before(k, j)})
    IN  [p \in 1 .. Len(seq) |-> seq[CHOOSE j \in 1 .. Len(seq) : Rank(j) = p]]

\* the loop relaxing every non-wall neighbor: neither the isVisited test nor
\* the comparison of tentativeG with the neighbor's gCost
RelaxNeighbors_NoChecks(S, current, end, neighbors) ==
    LET tentativeG == S.g[current].gCost + 1
        better == SelectSeq(neighbors, LAMBDA n : ~S.g[n].isWall)
    IN  [S EXCEPT !.g = [cell \in DOMAIN S.g |->
                            IF cell \in Range(better)
                            THEN [S.g[cell] EXCEPT !.previousNode = current,
                                                   !.gCost = tentativeG,
                                                   !.fCost = tentativeG + heuristic(cell, end)]
                            ELSE S.g[cell]],
                  !.frontier = S.frontier
                               \o SelectSeq(better, LAMBDA n : ~InSeq(n, S.frontier))]

\* the loop without its assignment to previousNode
RelaxNeighbors_NoLink(S, current, end, neighbors) ==
    LET tentativeG == S.g[current].gCost + 1
        better == SelectSeq(neighbors,
                            LAMBDA n : /\ ~(S.g[n].isWall \/ S.g[n].isVisited)
                                       /\ tentativeG < S.g[n].gCost)
    IN  [S EXCEPT !.g = [cell \in DOMAIN S.g |->
                            IF cell \in Range(better)
                            THEN [S.g[cell] EXCEPT !.gCost = tentativeG,
                                                   !.fCost = tentativeG + heuristic(cell, end)]
                            ELSE S.g[cell]],
                  !.frontier = S.frontier
                               \o SelectSeq(better, LAMBDA n : ~InSeq(n, S.frontier))]

\* the for loop over the neighbors in astar: each non-wall, unvisited neighbor
\* that current improves is linked, gets its costs and is pushed if the openSet
\* does not include it (the neighbors are distinct cells, so no iteration reads
\* what another wrote)
RelaxNeighbors(S, current, end, neighbors) ==
    LET tentativeG == S.g[current].gCost + 1
        better == SelectSeq(neighbors,
                            LAMBDA n : /\ ~(S.g[n].isWall \/ S.g[n].isVisited)
                                       /\ tentativeG < S.g[n].gCost)
    IN  [S EXCEPT !.g = [cell \in DOMAIN S.g |->
                            IF cell \in Range(better)
                            THEN [S.g[cell] EXCEPT !.previousNode = current,
                                                   !.gCost = tentativeG,
                                                   !.fCost = tentativeG + heuristic(cell, end)]
                            ELSE S.g[cell]],
                  !.frontier = S.frontier
                               \o SelectSeq(better, LAMBDA n : ~InSeq(n, S.frontier))]

\* astar before its loop
astarStart(g, start, end) ==
    [g |-> [g EXCEPT ![start].gCost = 0, ![start].fCost = heuristic(start, end)],
     frontier |-> <<start>>, visitedOrder |-> <<>>, done |-> FALSE]

\* one iteration of the while loop of astar
astarIter(S, end) ==
    LET openSet == SortByFCost(S.g, S.frontier)
        current == Head(openSet)
        S0 == [S EXCEPT !.frontier = Tail(openSet)]
    IN  IF S.g[current].isVisited THEN S0
        ELSE LET S1 == [S0 EXCEPT !.g[current].isVisited = TRUE,
                                  !.visitedOrder = Append(S.visitedOrder, current)]
             IN  IF current = end THEN [S1 EXCEPT !.done = TRUE]
                 ELSE RelaxNeighbors(S1, current, end, getNeighbors(current))

AlgoIds == {"bfs", "dfs", "astar"}

\* the state of the search chosen by startVisualization, before its loop
SearchStart(a, g, start, end) ==
    IF a = "bfs" THEN bfsStart(g, start)
    ELSE IF a = "dfs" THEN dfsStart(g, start)
    ELSE astarStart(g, start, end)

SearchIter(a, S, end) ==
    IF a = "bfs" THEN bfsIter(S, end)
    ELSE IF a = "dfs" THEN dfsIter(S, end)
    ELSE astarIter(S, end)

\* the loop condition: while (frontier.length), unless the search returned
Looping(S) == ~S.done /\ S.frontier # <<>>

RECURSIVE SearchLoop(_, _, _)
SearchLoop(a, S, end) ==
    IF Looping(S) THEN SearchLoop(a, SearchIter(a, S, end), end) ELSE S

\* bfs(start, end), dfs(start, end), astar(start, end) run to their return
bfs(g, start, end) == SearchLoop("bfs", bfsStart(g, start), end)
dfs(g, start, end) == SearchLoop("dfs", dfsStart(g, start), end)
astar(g, start, end) == SearchLoop("astar", astarStart(g, start, end), end)

RunSearch(a, g, start, end) ==
    IF a = "bfs" THEN bfs(g, start, end)
    ELSE IF a = "dfs" THEN dfs(g, start, end)
    ELSE astar(g, start, end)

----------------------------------------------------------------------------
(* animate: path reconstruction and the success flag *)

\* let curr = endNode; while (curr) { path.unshift(curr); curr = curr.previousNode }
RECURSIVE PathFrom(_, _, _)
PathFrom(g, curr, acc) ==
    IF curr = null THEN acc ELSE PathFrom(g, g[curr].previousNode, <<curr>> \o acc)

reconstructPath(g, endNode) == PathFrom(g, endNode, <<>>)

Success(g, p, startNode, endNode) ==
    /\ Len(p) >= 1
    /\ p[1] = startNode
    /\ ~g[endNode].isWall
    /\ g[endNode].isVisited

\* showResults called with path.length whatever the success flag
showResults_AlwaysLength(a, trace, p, success) ==
    [status |-> IF success THEN "Success" ELSE "Failed",
     algo |-> a, visited |-> Len(trace), pathLen |-> Len(p), success |-> success]

\* showResults(algo, visitedNodes.length, success ? path.length : 0, success)
showResults(a, trace, p, success) ==
    [status |-> IF success THEN "Success" ELSE "Failed",
     algo |-> a, visited |-> Len(trace),
     pathLen |-> IF success THEN Len(p) ELSE 0, success |-> success]

----------------------------------------------------------------------------
(* startVisualization and animate.  pc = "search" is the position inside    *)
(* the search loop (no other handler runs there: the search is synchronous),*)
(* pc = "animate" and pc = "path" are the awaits of animate's two loops.    *)

\* a finally block that does not reset isRunning
Finally_KeepsRunning == isRunning' = isRunning /\ pc' = "idle"

\* the finally block of startVisualization
Finally == isRunning' = FALSE /\ pc' = "idle"

\* animate from "// reconstruct path" on, entered with the grid g and the trace
\* of the search: either suspends in the path loop or shows the results and ends
ReconstructAndShow(a, g, trace) ==
    LET p == reconstructPath(g, At(endPos))
        success == Success(g, p, At(startPos), At(endPos))
    IN  /\ path' = p
        /\ IF success
           THEN pc' = "path" /\ i' = 0 /\ UNCHANGED <<isRunning, results>>
           ELSE /\ i' = Len(trace)
                /\ results' = IF a \in AlgoIds
                              THEN showResults(a, trace, p, success)
                              ELSE results      \* ALGO_INFO[algo] is undefined: showResults throws
                /\ Finally

\* click on the visualize button, with `a` the value of algoSelect
startVisualization(a) ==
    /\ UserEvent
    /\ IF isRunning
       THEN UNCHANGED <<gridArray, isRunning, runVars>>
       ELSE /\ algo' = a
            /\ IF a \in AlgoIds
               THEN LET S == SearchStart(a, resetVisuals(gridArray), At(startPos), At(endPos))
                    IN  /\ gridArray' = S.g
                        /\ frontier' = S.frontier
                        /\ visitedNodes' = S.visitedOrder
                        /\ isRunning' = TRUE
                        /\ pc' = "search"
                        /\ UNCHANGED <<i, path, results>>
               ELSE /\ gridArray' = resetVisuals(gridArray)
                    /\ visitedNodes' = <<>>
                    /\ UNCHANGED frontier
                    /\ ReconstructAndShow(a, gridArray', <<>>)
    /\ UNCHANGED <<ROWS, COLS, uiVars, startPos, endPos>>

\* one iteration of the loop of the running search; when the search returns,
\* animate starts and suspends at the first await of its loop over visitedNodes
SearchStep ==
    /\ pc = "search"
    /\ LET S == SearchIter(algo, [g |-> gridArray, frontier |-> frontier,
                                  visitedOrder |-> visitedNodes, done |-> FALSE],
                           At(endPos))
       IN  /\ gridArray' = S.g
           /\ frontier' = S.frontier
           /\ visitedNodes' = S.visitedOrder
           /\ IF Looping(S)
              THEN UNCHANGED <<pc, i>>
              ELSE pc' = "animate" /\ i' = 0
    /\ UNCHANGED <<ROWS, COLS, isRunning, uiVars, startPos, endPos, algo, path,
                   results, events>>

\* the timer of an await in the loop over visitedNodes fires
AnimateVisited ==
    /\ pc = "animate"
    /\ IF i + 1 < Len(visitedNodes)
       THEN i' = i + 1 /\ UNCHANGED <<pc, path, results, isRunning>>
       ELSE ReconstructAndShow(algo, gridArray, visitedNodes)
    /\ UNCHANGED <<ROWS, COLS, gridArray, uiVars, startPos, endPos, algo, frontier,
                   visitedNodes, events>>

\* the timer of an await in the loop over path fires
AnimatePath ==
    /\ pc = "path"
    /\ i' = i + 1
    /\ IF i + 1 < Len(path)
       THEN UNCHANGED <<pc, results, isRunning>>
       ELSE /\ results' = showResults(algo, visitedNodes, path, TRUE)
            /\ Finally
    /\ UNCHANGED <<ROWS, COLS, gridArray, uiVars, startPos, endPos, algo, frontier,
                   visitedNodes, path, events>>

\* the cells the pointer reaches: within distance MouseReach of the
\* bottom-right corner, where the clamped start and end positions lie
PointerCells == {cell \in DOMAIN gridArray :
                    (ROWS - 1 - cell[1]) + (COLS - 1 - cell[2]) < MouseReach}

Next ==
    \/ \E w \in Windows : Resize(w.innerWidth, w.innerHeight)
    \/ \E tool \in {"pointer", "pencil", "eraser"} : setTool(tool)
    \/ \E cell \in PointerCells : handleMouseDown(cell[1], cell[2])
    \/ \E cell \in PointerCells : handleMouseEnter(cell[1], cell[2])
    \/ handleMouseUp
    \/ resetBoard
    \/ \E type \in {"random", "recursive"}, rand \in RandomStreams :
          handleMazeGen(type, rand)
    \/ \E rand \in {[seed |-> 0, stride |-> 0]} : handleMazeGen("spiral", rand)
    \/ \E a \in AlgoIds \cup {"other"} : startVisualization(a)
    \/ SearchStep
    \/ AnimateVisited
    \/ AnimatePath

Spec == Init /\ [][Next]_vars

----------------------------------------------------------------------------
(* The search specification: one visualization on an input grid.  The input *)
(* is the 5 x 5 grid of the small window with up to MaxWalls walls drawn    *)
(* and the start and end dragged to a pair of SearchEndpoints; all of it is *)
(* reachable by resize, drags and pencil strokes.                           *)

\* the sets of at most n cells of `cells`
RECURSIVE SetsUpTo(_, _)
SetsUpTo(cells, n) ==
    IF n = 0 THEN {{}}
    ELSE LET smaller == SetsUpTo(cells, n - 1)
         IN  smaller \cup {W \cup {cell} : W \in smaller, cell \in cells}

\* <<start, end>> pairs: corner to corner both ways, across the middle both
\* ways, and the two positions clamped onto the same corner cell
SearchEndpoints ==
    { << <<0, 0>>, <<4, 4>> >>, << <<4, 4>>, <<0, 0>> >>,
      << <<2, 1>>, <<2, 3>> >>, << <<3, 3>>, <<1, 2>> >>,
      << <<4, 4>>, <<4, 4>> >> }

InitSearch ==
    /\ ROWS = GridRows(46 * 4)
    /\ COLS = GridCols(36 * 4)
    /\ \E pair \in SearchEndpoints :
          /\ startPos = [r |-> pair[1][1], c |-> pair[1][2]]
          /\ endPos = [r |-> pair[2][1], c |-> pair[2][2]]
          /\ \E W \in SetsUpTo(Cells(ROWS, COLS) \ {pair[1], pair[2]}, MaxWalls) :
                gridArray = [cell \in Cells(ROWS, COLS) |->
                                [NewNode EXCEPT !.isWall = (cell \in W)]]
    /\ isMousePressed = FALSE
    /\ isRunning = FALSE
    /\ currentTool = "pencil"
    /\ draggingNode = "null"
    /\ pc = "idle"
    /\ algo = "none"
    /\ frontier = <<>>
    /\ visitedNodes = <<>>
    /\ i = 0
    /\ path = <<>>
    /\ results = NoResults
    /\ events = MaxEvents - 1      \* one click on the visualize button

NextSearch ==
    \/ \E a \in AlgoIds : startVisualization(a)
    \/ SearchStep
    \/ AnimateVisited
    \/ AnimatePath

SpecSearch == InitSearch /\ [][NextSearch]_vars

----------------------------------------------------------------------------
(* The division specification: recursive division on the 11 x 11 grid, whose *)
(* interior (rows and columns 1 .. 9) is 9 x 9.  The grid is the one         *)
(* calculateGridSize creates for a window of 11 x 11 cells; the start and    *)
(* the end are where the clamp leaves them, or dragged onto the top and the  *)
(* bottom row, which no wall line of the division crosses.                   *)

DivisionEndpoints ==
    { <<ClampPos([r |-> 5, c |-> 5], GridRows(46 * 11), GridCols(36 * 11)),
        ClampPos([r |-> 5, c |-> 25], GridRows(46 * 11), GridCols(36 * 11))>> }
    \cup { <<[r |-> 0, c |-> a], [r |-> GridRows(46 * 11) - 1, c |-> b]>> :
              a \in 0 .. GridCols(36 * 11) - 1, b \in 0 .. GridCols(36 * 11) - 1 }

InitDivision ==
    /\ ROWS = GridRows(46 * 11)
    /\ COLS = GridCols(36 * 11)
    /\ gridArray = createGrid(ROWS, COLS)
    /\ \E pair \in DivisionEndpoints : startPos = pair[1] /\ endPos = pair[2]
    /\ isMousePressed = FALSE
    /\ isRunning = FALSE
    /\ currentTool = "pointer"
    /\ draggingNode = "null"
    /\ pc = "idle"
    /\ algo = "none"
    /\ frontier = <<>>
    /\ visitedNodes = <<>>
    /\ i = 0
    /\ path = <<>>
    /\ results = NoResults
    /\ events = MaxEvents - 1      \* one choice of the recursive division maze

NextDivision == \E rand \in RandomStreams : handleMazeGen("recursive", rand)

SpecDivision == InitDivision /\ [][NextDivision]_vars

----------------------------------------------------------------------------
(* The maze specification: one maze generation on a fresh grid of 5, 6 or   *)
(* MaxMazeSide rows and columns (the grid calculateGridSize creates for a   *)
(* window of that many cells), with the start and the end dragged to a pair *)
(* of MazeCells, or both clamped onto the bottom-right corner.              *)

MazeSides == {5, 6, MaxMazeSide}

\* corners, cells on the first wall lines, cells between them, and a cell of the
\* last column
MazeCells(rows, cols) ==
    { <<0, 0>>, <<1, 1>>, <<2, 2>>, <<1, 3>>, <<2, cols - 1>>,
      <<rows - 2, cols - 2>>, <<rows - 1, cols - 1>> }

MazeEndpoints(rows, cols) ==
    { pair \in MazeCells(rows, cols) \X MazeCells(rows, cols) :
         pair[1] # pair[2] \/ pair[1] = <<rows - 1, cols - 1>> }

InitMaze ==
    /\ \E n \in MazeSides, m \in MazeSides :
          /\ ROWS = GridRows(46 * n)
          /\ COLS = GridCols(36 * m)
    /\ gridArray = createGrid(ROWS, COLS)
    /\ \E pair \in MazeEndpoints(ROWS, COLS) :
          /\ startPos = [r |-> pair[1][1], c |-> pair[1][2]]
          /\ endPos = [r |-> pair[2][1], c |-> pair[2][2]]
    /\ isMousePressed = FALSE
    /\ isRunning = FALSE
    /\ currentTool = "pointer"
    /\ draggingNode = "null"
    /\ pc = "idle"
    /\ algo = "none"
    /\ frontier = <<>>
    /\ visitedNodes = <<>>
    /\ i = 0
    /\ path = <<>>
    /\ results = NoResults
    /\ events = MaxEvents - 1      \* one choice in the maze select

NextMaze ==
    \/ \E type \in {"random", "recursive"}, rand \in RandomStreams :
          handleMazeGen(type, rand)
    \/ \E rand \in {[seed |-> 0, stride |-> 0]} : handleMazeGen("spiral", rand)

SpecMaze == InitMaze /\ [][NextMaze]_vars

----------------------------------------------------------------------------
(* The run specification: one visualize click on the 5 x 5 grid, the start  *)
(* and the end two cells apart in the middle row or clamped onto the corner.*)
(* The walls are none, a ring around the end, or the cell in the middle.    *)
(* The search loop runs on once entered and every timer of animate fires,   *)
(* hence the weak fairness of the three steps.                              *)

RunEndpoints == { << <<2, 1>>, <<2, 3>> >>, << <<4, 4>>, <<4, 4>> >> }

RunWalls(start, end) ==
    { {},
      {cell \in Cells(5, 5) : Abs(cell[1] - end[1]) + Abs(cell[2] - end[2]) = 1} \ {start, end},
      {<<2, 2>>} \ {start, end} }

InitRun ==
    /\ ROWS = GridRows(46 * 4)
    /\ COLS = GridCols(36 * 4)
    /\ \E pair \in RunEndpoints :
          /\ startPos = [r |-> pair[1][1], c |-> pair[1][2]]
          /\ endPos = [r |-> pair[2][1], c |-> pair[2][2]]
          /\ \E W \in RunWalls(pair[1], pair[2]) :
                gridArray = [cell \in Cells(ROWS, COLS) |->
                                [NewNode EXCEPT !.isWall = (cell \in W)]]
    /\ isMousePressed = FALSE
    /\ isRunning = FALSE
    /\ currentTool = "pencil"
    /\ draggingNode = "null"
    /\ pc = "idle"
    /\ algo = "none"
    /\ frontier = <<>>
    /\ visitedNodes = <<>>
    /\ i = 0
    /\ path = <<>>
    /\ results = NoResults
    /\ events = MaxEvents - 1      \* one click on the visualize button

NextRun ==
    \/ \E a \in AlgoIds \cup {"other"} : startVisualization(a)
    \/ SearchStep
    \/ AnimateVisited
    \/ AnimatePath

FairRun ==
    /\ InitRun
    /\ [][NextRun]_vars
    /\ WF_vars(SearchStep)
    /\ WF_vars(AnimateVisited)
    /\ WF_vars(AnimatePath)

----------------------------------------------------------------------------
(* Claims *)

IsWall(cell) == gridArray[cell].isWall

\* C1: in every reachable state (wall drawing and erasing, start/end dragging,
\* maze generation, board reset, resize), neither the cell at the start position
\* nor the cell at the end position is a wall.
C1_StartEndNeverWall ==
    \A cell \in DOMAIN gridArray :
        (cell = At(startPos) \/ cell = At(endPos)) => ~IsWall(cell)

\* a start drag is in progress while a generated or drawn wall lies within the
\* pointer's reach
C1_Witness ==
    /\ isMousePressed
    /\ draggingNode = "start"
    /\ \E cell \in PointerCells : IsWall(cell)

InBounds(pos) == pos.r >= 0 /\ pos.r < ROWS /\ pos.c >= 0 /\ pos.c < COLS

\* C10: the start and the end position are always inside the current grid, and
\* immediately after a resize the grid has ROWS x COLS cells, none a wall and
\* each with default search metadata.
C10_ResizeClampsAndClears ==
    /\ [](InBounds(startPos) /\ InBounds(endPos))
    /\ [][(~isRunning /\ \E w \in Windows : Resize(w.innerWidth, w.innerHeight))
            => /\ DOMAIN gridArray' = Cells(ROWS', COLS')
               /\ \A cell \in DOMAIN gridArray' : gridArray'[cell] = NewNode]_vars

\* both positions were clamped into the small grid, the start after a drag
C10_Witness ==
    /\ ROWS = 5 /\ COLS = 5
    /\ startPos = [r |-> 3, c |-> 4]
    /\ endPos = [r |-> 4, c |-> 4]
    /\ draggingNode = "start"
    /\ events = MaxEvents

----------------------------------------------------------------------------
(* Reference definitions for the search claims: reachability and distance   *)
(* by level-order expansion over the non-wall cells, independent of the     *)
(* searches above.                                                          *)

Adjacent(a, b) == Abs(a[1] - b[1]) + Abs(a[2] - b[2]) = 1

OpenCells == {cell \in DOMAIN gridArray : ~IsWall(cell)}

\* the level of `target` in the level-order expansion from `layer`, or -1
RECURSIVE LevelOf(_, _, _, _)
LevelOf(target, seen, layer, d) ==
    IF target \in layer THEN d
    ELSE IF layer = {} THEN -1
    ELSE LET next == {cell \in OpenCells \ seen : \E b \in layer : Adjacent(cell, b)}
         IN  LevelOf(target, seen \cup next, next, d + 1)

\* shortest-path distance from a to b through non-wall cells, or -1
Distance(a, b) == LevelOf(b, {a}, {a}, 0)

EndReachable == Distance(At(startPos), At(endPos)) >= 0

\* the run of algorithm a has completed: showResults was called
Finished(a) == pc = "idle" /\ results.status \in {"Success", "Failed"} /\ results.algo = a

\* what bfs followed by path reconstruction yields on the walls and positions
\* of the current state
BfsRun ==
    LET S == bfs(resetVisuals(gridArray), At(startPos), At(endPos))
        p == reconstructPath(S.g, At(endPos))
    IN  [trace |-> S.visitedOrder, path |-> p,
         success |-> Success(S.g, p, At(startPos), At(endPos))]

HasWall == \E cell \in DOMAIN gridArray : IsWall(cell)

\* C2: when the end is reachable, the path reconstructed after bfs has as many
\* edges as the shortest-path distance from start to end.
C2_BfsShortest ==
    (Finished("bfs") /\ EndReachable)
        => results.success /\ Len(path) - 1 = Distance(At(startPos), At(endPos))

\* bfs completed on a grid whose walls force a detour
C2_Witness ==
    /\ Finished("bfs")
    /\ Distance(At(startPos), At(endPos)) > heuristic(At(startPos), At(endPos))

\* C3: astar succeeds exactly when bfs succeeds on the same input, and then the
\* two reconstructed paths have the same length.
C3_AstarAgreesWithBfs ==
    Finished("astar")
        => /\ results.success = BfsRun.success
           /\ results.success => Len(path) = Len(BfsRun.path)

\* astar found a path around walls that force a detour
C3_Witness ==
    /\ Finished("astar")
    /\ results.success
    /\ Len(path) - 1 > heuristic(At(startPos), At(endPos))

\* C4: the success flag after dfs is true exactly when the end is reachable
\* from the start through non-wall orthogonal moves.
C4_DfsSuccessIffReachable ==
    Finished("dfs") => (results.success <=> EndReachable)

\* dfs reported failure on a grid with the end walled in
C4_Witness == Finished("dfs") /\ ~results.success /\ ~EndReachable

\* C5: when the end is not reachable, each search completes with a trace of at
\* least one cell that does not contain the end, success false and a reported
\* path length of 0.
C5_FailureSemantics ==
    \A a \in AlgoIds :
        (Finished(a) /\ ~EndReachable)
            => /\ Len(visitedNodes) >= 1
               /\ ~InSeq(At(endPos), visitedNodes)
               /\ results.visited = Len(visitedNodes)
               /\ ~results.success
               /\ results.pathLen = 0

\* astar completed with the end walled into its corner
C5_Witness ==
    /\ Finished("astar")
    /\ ~EndReachable
    /\ \A cell \in DOMAIN gridArray : Adjacent(cell, At(endPos)) => IsWall(cell)

\* C6: the path of a successful run starts at the start, ends at the end, moves
\* between orthogonally adjacent cells, and holds no wall and no cell twice.
C6_PathWellFormed ==
    \A a \in AlgoIds :
        (Finished(a) /\ results.success)
            => /\ path[1] = At(startPos)
               /\ path[Len(path)] = At(endPos)
               /\ results.pathLen = Len(path)
               /\ \A j \in 1 .. Len(path) - 1 : Adjacent(path[j], path[j + 1])
               /\ \A j \in 1 .. Len(path) : ~IsWall(path[j])
               /\ \A j, k \in 1 .. Len(path) : path[j] = path[k] => j = k

\* dfs succeeded with a path longer than the shortest one
C6_Witness ==
    /\ Finished("dfs")
    /\ results.success
    /\ Len(path) - 1 > Distance(At(startPos), At(endPos))

\* C7: on a grid with at least one wall, the trace of astar is no longer than
\* the trace of bfs on the same input.
C7_AstarVisitsNoMoreThanBfs ==
    (Finished("astar") /\ HasWall) => Len(visitedNodes) <= Len(BfsRun.trace)

\* astar completed on a walled grid with a strictly shorter trace than bfs
C7_Witness ==
    /\ Finished("astar")
    /\ HasWall
    /\ Len(visitedNodes) < Len(BfsRun.trace)

\* the number of times x occurs in seq
Count(x, seq) == Cardinality({j \in 1 .. Len(seq) : seq[j] = x})

\* a measure of the work a search has left: the entries of its frontier, and
\* five for every non-wall cell not yet marked visited
Variant ==
    Len(frontier)
    + 5 * Cardinality({cell \in DOMAIN gridArray :
                          ~gridArray[cell].isVisited /\ ~gridArray[cell].isWall})

\* C8: every search terminates: each iteration of its loop strictly decreases
\* Variant (a natural number) and adds no cell to the frontier that was already
\* marked visited, and the loop is left only with the frontier empty or the end
\* finalized.
C8_SearchTerminates ==
    /\ [](pc = "animate" => frontier = <<>> \/ visitedNodes[Len(visitedNodes)] = At(endPos))
    /\ [][pc = "search"
            => /\ Variant' < Variant
               /\ \A cell \in DOMAIN gridArray :
                     Count(cell, frontier') > Count(cell, frontier)
                         => ~gridArray[cell].isVisited]_vars

\* a search left its loop with an empty frontier and without the end
C8_Witness ==
    /\ pc = "animate"
    /\ frontier = <<>>
    /\ ~InSeq(At(endPos), visitedNodes)
    /\ Len(visitedNodes) > 1

\* the cells reachable from the cells of `layer` through non-wall orthogonal
\* moves, `seen` being those found so far
RECURSIVE Flood(_, _)
Flood(seen, layer) ==
    IF layer = {} THEN seen
    ELSE LET next == {cell \in OpenCells \ seen : \E b \in layer : Adjacent(cell, b)}
         IN  Flood(seen \cup next, next)

ReachableFromStart == Flood({At(startPos)}, {At(startPos)})

\* C9: after recursive division of the 9 x 9 interior of the 11 x 11 grid,
\* every non-wall cell is reachable from the start cell.
C9_DivisionConnected ==
    (results = IdleResults /\ HasWall) => OpenCells \subseteq ReachableFromStart

----------------------------------------------------------------------------
(* Grid model claims *)

\* the four orthogonal positions around a cell, in the order up, right, down, left
Around(cell) ==
    << <<cell[1] - 1, cell[2]>>, <<cell[1], cell[2] + 1>>,
       <<cell[1] + 1, cell[2]>>, <<cell[1], cell[2] - 1>> >>

\* C11: for every cell of the grid, getNeighbors returns exactly the orthogonally
\* adjacent positions that lie inside the grid, each once, in the order up,
\* right, down, left, and never a position outside the grid.
C11_NeighborsInBounds ==
    \A cell \in DOMAIN gridArray :
        LET neighbors == getNeighbors(cell)
        IN  /\ neighbors = SelectSeq(Around(cell),
                                     LAMBDA n : /\ n[1] >= 0 /\ n[1] < ROWS
                                                /\ n[2] >= 0 /\ n[2] < COLS)
            /\ \A j \in 1 .. Len(neighbors) : neighbors[j] \in DOMAIN gridArray

\* a search on the wide grid has expanded the bottom-right corner cell
C11_Witness ==
    /\ pc = "animate"
    /\ COLS > ROWS
    /\ At(endPos) # <<ROWS - 1, COLS - 1>>
    /\ InSeq(<<ROWS - 1, COLS - 1>>, visitedNodes)

----------------------------------------------------------------------------
(* Maze generator claims *)

MazeTypes == {"random", "spiral", "recursive"}

NoRandom == [seed |-> 0, stride |-> 0]

\* C12: after the spiral generator has run, every in-grid orthogonal neighbour
\* of the start cell and of the end cell is not a wall.
C12_SpiralClearsAroundEndpoints ==
    [][(~isRunning /\ handleMazeGen("spiral", NoRandom))
          => \A cell \in DOMAIN gridArray' :
                (Adjacent(cell, At(startPos)) \/ Adjacent(cell, At(endPos)))
                    => ~gridArray'[cell].isWall]_vars

\* the spiral has run, and a neighbour of the start lies on one of its rings
C12_Witness ==
    /\ results = IdleResults
    /\ HasWall
    /\ gridArray = RunGenerator("spiral", NoRandom).g
    /\ \E cell \in DOMAIN gridArray :
          /\ Adjacent(cell, At(startPos))
          /\ SpiralLoop(BoardReset, 1, ROWS - 2, 1, COLS - 2).g[cell].isWall

\* the rectangles inside the grid's interior that have fewer than three rows or
\* fewer than three columns
SmallRectangles ==
    { rect \in (1 .. ROWS - 2) \X (1 .. ROWS - 2) \X (1 .. COLS - 2) \X (1 .. COLS - 2) :
         /\ rect[1] <= rect[2] /\ rect[3] <= rect[4]
         /\ (rect[2] - rect[1] < 2 \/ rect[4] - rect[3] < 2) }

\* C13: no generator passes addWall a position that is not a cell of the grid
\* (no run ends in the TypeError of such a call), and recursive division of a
\* rectangle with fewer than three rows or columns changes no cell.
C13_GeneratorsStayInGrid ==
    /\ [][\A type \in MazeTypes, rand \in RandomStreams :
             (~isRunning /\ handleMazeGen(type, rand))
                 => ~RunGenerator(type, rand).threw]_vars
    /\ [](results = NoResults
            => LET M == BoardReset
               IN  \A rect \in SmallRectangles, rand \in RandomStreams :
                      recursiveDivision(M, rand, rect[1], rect[2], rect[3], rect[4]) = M)

\* the random DFS maze has carved passages on a grid of more than 5 x 5 cells
C13_Witness ==
    /\ results = IdleResults
    /\ ROWS > 5 /\ COLS > 5
    /\ \E rand \in RandomStreams : gridArray = RunGenerator("random", rand).g
    /\ \E cell \in OpenCells : cell # At(startPos) /\ cell # At(endPos)

----------------------------------------------------------------------------
(* Claims on the handlers' guards and frames *)

\* C14: while a visualization runs (isRunning, the animation suspended between
\* two timers), every user event - visualize click, mouse press, drag, maze
\* generation, board reset, resize - leaves the grid with its walls and search
\* metadata, the start and end positions, the dimensions and the run in flight
\* unchanged.
C14_NoMutationWhileRunning ==
    [][(isRunning /\ events' # events)
          => UNCHANGED <<gridArray, startPos, endPos, ROWS, COLS, isRunning, runVars>>]_vars

\* the animation of a found path is suspended, the end's drag is still in
\* progress and every user event of the behaviour has been handled
C14_Witness ==
    /\ isRunning
    /\ pc = "path"
    /\ isMousePressed
    /\ draggingNode = "end"
    /\ events = MaxEvents

\* a step of a search run: an accepted visualize click (it sets algo to the
\* identifier chosen), an iteration of the search, a timer of animate
SearchRunStep ==
    \/ /\ events' # events
       /\ ~isRunning
       /\ \E a \in {algo'} \cap (AlgoIds \cup {"other"}) : startVisualization(a)
    \/ /\ events' = events
       /\ (SearchStep \/ AnimateVisited \/ AnimatePath)

\* C15: a search run changes no isWall flag and no distance field, and neither
\* the start, the end nor the dimensions (only isVisited, previousNode, gCost
\* and fCost change); a maze generator run leaves every cell as the board reset
\* left it except for its isWall flag, and leaves the start and the end alone.
C15_Frames ==
    /\ [][SearchRunStep
            => /\ UNCHANGED <<startPos, endPos, ROWS, COLS>>
               /\ DOMAIN gridArray' = DOMAIN gridArray
               /\ \A cell \in DOMAIN gridArray :
                     /\ gridArray'[cell].isWall = gridArray[cell].isWall
                     /\ gridArray'[cell].distance = gridArray[cell].distance]_vars
    /\ [][(~isRunning /\ events' # events /\ results' = IdleResults
           /\ \E type \in MazeTypes, rand \in RandomStreams : handleMazeGen(type, rand))
            => /\ UNCHANGED <<startPos, endPos, ROWS, COLS>>
               /\ DOMAIN gridArray' = DOMAIN gridArray
               /\ \A cell \in DOMAIN gridArray :
                     [gridArray'[cell] EXCEPT !.isWall = FALSE] = BoardReset.g[cell]]_vars

\* a search has completed on a generated maze (a wall lies where the pointer of
\* the model does not reach) and has marked cells
C15_Witness ==
    /\ pc = "idle"
    /\ results.status \in {"Success", "Failed"}
    /\ \E cell \in DOMAIN gridArray \ PointerCells : IsWall(cell)
    /\ \E cell \in DOMAIN gridArray : gridArray[cell].isVisited /\ gridArray[cell].previousNode # null

----------------------------------------------------------------------------
(* Claims on the positions and on the traces *)

\* C16: in every reachable state the start position and the end position are
\* two different cells.
C16_StartEndDistinct == startPos # endPos

\* the search has returned its trace and animate has not yet advanced
Returned == pc = "animate" /\ i = 0

\* the index of the first occurrence of cell in seq, or 0
IndexOf(cell, seq) ==
    IF InSeq(cell, seq)
    THEN CHOOSE j \in 1 .. Len(seq) : seq[j] = cell /\ \A k \in 1 .. j - 1 : seq[k] # cell
    ELSE 0

\* C17: the cells of the trace of bfs are in non-decreasing order of their
\* shortest-path distance from the start, which on a grid without walls is
\* their Manhattan distance; on the 5 x 5 grid without walls, from (0,0) to
\* (4,4), the reconstructed path has 9 cells.
C17_BfsLevelOrder ==
    Finished("bfs")
        => /\ \A j \in 1 .. Len(visitedNodes) - 1 :
                 /\ Distance(At(startPos), visitedNodes[j]) >= 0
                 /\ Distance(At(startPos), visitedNodes[j])
                       <= Distance(At(startPos), visitedNodes[j + 1])
           /\ ~HasWall
                 => \A j \in 1 .. Len(visitedNodes) :
                       Distance(At(startPos), visitedNodes[j])
                           = heuristic(At(startPos), visitedNodes[j])
           /\ (~HasWall /\ ROWS = 5 /\ COLS = 5
               /\ At(startPos) = <<0, 0>> /\ At(endPos) = <<4, 4>>)
                 => results.success /\ Len(path) = 9 /\ results.pathLen = 9

\* bfs completed on the 5 x 5 grid without walls from (0,0) to (4,4)
C17_Witness ==
    /\ Finished("bfs")
    /\ ~HasWall
    /\ ROWS = 5 /\ COLS = 5
    /\ At(startPos) = <<0, 0>> /\ At(endPos) = <<4, 4>>
    /\ Len(visitedNodes) = 25

\* C18: in the trace a search returns no cell occurs twice, no cell is a wall,
\* the first cell is the start, and the end occurs only as the last cell.
C18_TraceWellFormed ==
    (pc \in {"animate", "path"} \/ \E a \in AlgoIds : Finished(a))
        => /\ Len(visitedNodes) >= 1
           /\ visitedNodes[1] = At(startPos)
           /\ \A j, k \in 1 .. Len(visitedNodes) :
                 visitedNodes[j] = visitedNodes[k] => j = k
           /\ \A j \in 1 .. Len(visitedNodes) : ~IsWall(visitedNodes[j])
           /\ \A j \in 1 .. Len(visitedNodes) :
                 visitedNodes[j] = At(endPos) => j = Len(visitedNodes)

\* dfs returned a trace of several cells that ends with the end, on a walled grid
C18_Witness ==
    /\ Returned
    /\ algo = "dfs"
    /\ HasWall
    /\ Len(visitedNodes) > 3
    /\ visitedNodes[Len(visitedNodes)] = At(endPos)

\* C19: when a search has returned, the start cell has no previousNode, and
\* every other cell of the trace has as previousNode an orthogonally adjacent
\* non-wall cell that occurs earlier in the trace; the chain of previousNode
\* from a cell of the trace is no longer than the cell's index in the trace.
C19_PreviousNodeLinks ==
    Returned
        => /\ gridArray[At(startPos)].previousNode = null
           /\ \A j \in 2 .. Len(visitedNodes) :
                 LET prev == gridArray[visitedNodes[j]].previousNode
                 IN  /\ prev # null
                     /\ prev \in DOMAIN gridArray
                     /\ Adjacent(prev, visitedNodes[j])
                     /\ ~IsWall(prev)
                     /\ IndexOf(prev, visitedNodes) \in 1 .. j - 1
                     /\ Len(reconstructPath(gridArray, visitedNodes[j])) <= j

\* astar returned a trace in which a cell's previousNode is not the cell
\* finalized just before it
C19_Witness ==
    /\ Returned
    /\ algo = "astar"
    /\ \E j \in 2 .. Len(visitedNodes) :
          /\ gridArray[visitedNodes[j]].previousNode # null
          /\ gridArray[visitedNodes[j]].previousNode # visitedNodes[j - 1]

----------------------------------------------------------------------------
(* Claim on the completion of a run *)

\* C20: every visualization that starts completes: isRunning, once true, becomes
\* false again; it is true exactly while a run is in flight; and a click with
\* an unknown algorithm identifier (whose result display throws) leaves it
\* false, so the handlers guarded by isRunning accept events again.
C20_RunCompletes ==
    /\ isRunning ~> ~isRunning
    /\ [](isRunning <=> pc # "idle")
    /\ [][(~isRunning /\ startVisualization("other")) => ~isRunning' /\ pc' = "idle"]_vars

\* a visualization that animated a trace and a path has completed, and
\* isRunning is false again
C20_Witness ==
    /\ ~isRunning
    /\ pc = "idle"
    /\ results.status = "Success"
    /\ Len(visitedNodes) > 1
    /\ i = Len(path)

----------------------------------------------------------------------------
(* Claims on the random DFS maze and on the open set of astar *)

\* the grid is one the random DFS maze generator leaves for the current
\* dimensions, start and end
MazeGenerated ==
    /\ results = IdleResults
    /\ \E rand \in RandomStreams : gridArray = RunGenerator("random", rand).g

\* C21: after the random DFS maze generator, every cell at an even row offset
\* and an even column offset from the start is not a wall, and every non-wall
\* cell other than the end cell is reachable from the start through non-wall
\* orthogonal moves.
C21_DfsMazeConnected ==
    MazeGenerated
        => /\ \A cell \in DOMAIN gridArray :
                 (Abs(cell[1] - startPos.r) % 2 = 0 /\ Abs(cell[2] - startPos.c) % 2 = 0)
                     => ~IsWall(cell)
           /\ OpenCells \ {At(endPos)} \subseteq ReachableFromStart

\* the DFS maze has run on a grid of more than 5 x 5 cells whose end lies at
\* an odd row offset and an odd column offset from the start, off the lattice
C21_Witness ==
    /\ MazeGenerated
    /\ ROWS > 5 /\ COLS > 5
    /\ Abs(endPos.r - startPos.r) % 2 = 1
    /\ Abs(endPos.c - startPos.c) % 2 = 1
    /\ Cardinality(OpenCells) > 9

\* C22: while astar runs, its open set holds no cell twice and no cell marked
\* visited, and every iteration of its loop finalizes the cell it removes (the
\* skip of a stale entry is never taken).
C22_OpenSetNoStaleEntries ==
    /\ []((pc = "search" /\ algo = "astar")
            => /\ \A j, k \in 1 .. Len(frontier) : frontier[j] = frontier[k] => j = k
               /\ \A j \in 1 .. Len(frontier) : ~gridArray[frontier[j]].isVisited)
    /\ [][(pc = "search" /\ algo = "astar")
            => /\ Len(visitedNodes') = Len(visitedNodes) + 1
               /\ gridArray'[visitedNodes'[Len(visitedNodes')]].isVisited
               /\ ~gridArray[visitedNodes'[Len(visitedNodes')]].isVisited]_vars

\* astar is in its loop with several cells finalized and several in the open
\* set, one of them adjacent to two finalized cells (offered to the open set
\* twice)
C22_Witness ==
    /\ pc = "search"
    /\ algo = "astar"
    /\ Len(visitedNodes) >= 3
    /\ Len(frontier) >= 3
    /\ \E j \in 1 .. Len(frontier) :
          Cardinality({k \in 1 .. Len(visitedNodes) :
                          Adjacent(frontier[j], visitedNodes[k])}) >= 2

====
